---- MODULE Spec2Model ----
(***************************************************************************)
(* Motion-Rendering-React: a library of frame-driven overlay components.   *)
(*                                                                         *)
(* A composition is mounted by the rendering framework, which then asks    *)
(* the component for the description of one frame after another.  The      *)
(* state is the mounted composition, its props, the video configuration    *)
(* handed out by useVideoConfig, the current frame handed out by           *)
(* useCurrentFrame, the hook cache (useMemo) of the mounted instance and   *)
(* the description returned by the last render.                            *)
(*                                                                         *)
(* Numbers.  The components compute with IEEE doubles; the model computes  *)
(* with exact rationals, each written as an integer numerator over a       *)
(* denominator that the definition's comment names.                        *)
(***************************************************************************)
EXTENDS Integers, Sequences, FiniteSets, TLC

VARIABLES comp, props, video, frame, memo, out

vars == <<comp, props, video, frame, memo, out>>

(***************************************************************************)
(* Composition bundles, one per exported compositionConfig / newsConfig.   *)
(* Fractional defaults are kept as strings; bullet characters of           *)
(* tickerText are written as *; StreamGlitch's primaryText is kept as the  *)
(* sequence of its characters (the component only uses its split('')).     *)
(***************************************************************************)
NeonYearLoadConfig ==
  [id |-> "NeonYearLoad", durationInSeconds |-> 5, fps |-> 30,
   width |-> 3840, height |-> 2160,
   defaultProps |-> [yearStart |-> "DECEMBER", yearEnd |-> "JANUARY",
                     primaryColor |-> "#c123ffff", secondaryColor |-> "#f9daffff",
                     glowIntensity |-> 20,
                     gameFont |-> "'Press Start 2P', 'Courier New', monospace"]]

GlowingStringLightsConfig ==
  [id |-> "GlowingStringLights", durationInSeconds |-> 10, fps |-> 30,
   width |-> 3840, height |-> 2160,
   defaultProps |-> [bulbSpacing |-> 80, swayIntensity |-> 20,
                     colors |-> [warmGold |-> "#FFB700", filament |-> "#FFFDD0",
                                 wire |-> "#444444"]]]

StreamGlitchConfig ==
  [id |-> "StreamGlitch", durationInSeconds |-> 9, fps |-> 30,
   width |-> 3840, height |-> 2160,
   defaultProps |-> [primaryText |-> <<"S","T","A","R","T","I","N","G"," ","S","O","O","N">>,
                     secondaryText |-> "",
                     accentColor |-> "#00FFFF", baseColor |-> "#FFFFFF",
                     scanDuration |-> 90]]

ZenProgressBarConfig ==
  [id |-> "ZenProgressBar", durationInSeconds |-> 12, fps |-> 30,
   width |-> 3840, height |-> 2160,
   defaultProps |-> [containerWidth |-> 2000, barHeight |-> 90,
                     colorStart |-> "#89CFF0", colorEnd |-> "#9FE2BF",
                     text |-> "Please wait..."]]

NeonCircleFrameConfig ==
  [id |-> "NeonCircleFrame", durationInFrames |-> 300, fps |-> 30,
   width |-> 3840, height |-> 2160,
   defaultProps |-> [cyanColor |-> "#00FFFF", pinkColor |-> "#FF00FF",
                     iconSize |-> 1200, strokeThickness |-> 40]]

FallingHeartsEmojiConfig ==
  [id |-> "FallingHeartsEmoji", component |-> "FallingHeartsEmoji",
   width |-> 3840, height |-> 2160, fps |-> 30, durationInSeconds |-> 10,
   defaultProps |-> <<>>]

GyroscopeV2Config ==
  [id |-> "GyroscopeV2", durationInFrames |-> 300, fps |-> 30,
   width |-> 3840, height |-> 2160,
   defaultProps |-> [goldColor |-> "#00FFFF", ringSize |-> 1000, thickness |-> 20]]

NeonLiveIndicatorConfig ==
  [id |-> "NeonLiveIndicator", component |-> "NeonLiveIndicator",
   width |-> 3840, height |-> 2160, fps |-> 30, durationInSeconds |-> 10,
   defaultProps |-> <<>>]

ErrorCrossConfig ==
  [id |-> "ErrorCross", durationInFrames |-> 120, fps |-> 30,
   width |-> 3840, height |-> 2160,
   defaultProps |-> [color |-> "#FF0000", strokeWidth |-> 30, iconSize |-> 800]]

GlowingLightsStringConfig ==
  [id |-> "GlowingLightsString", durationInSeconds |-> 10, fps |-> 30,
   width |-> 3840, height |-> 2160,
   defaultProps |-> [bulbCount |-> 15, wireColor |-> "#4a3b2a",
                     glowColor |-> "#ffdd55", baseColor |-> "#ffaa00",
                     sagStrength |-> 240]]

NeonRadioWavesConfig ==
  [id |-> "NeonRadioWaves", durationInSeconds |-> 10, fps |-> 30,
   width |-> 3840, height |-> 2160,
   defaultProps |-> [waveCount |-> 8, waveLifeTime |-> 120, maxRadius |-> 1000,
                     color |-> "#ff1100ff", strokeWidth |-> 8]]

SuccessCheckmarkConfig ==
  [id |-> "SuccessCheckmark", durationInFrames |-> 150, fps |-> 30,
   width |-> 3840, height |-> 2160,
   defaultProps |-> [color |-> "#39FF14", strokeWidth |-> 30, iconSize |-> 800]]

FloatingSliderConfig ==
  [id |-> "FloatingSlider", durationInSeconds |-> 10, fps |-> 30,
   width |-> 3840, height |-> 2160,
   defaultProps |-> [barWidth |-> 2400, barHeight |-> 80, knobSize |-> 130,
                     primaryColor |-> "#ff0000", secondaryColor |-> "#ff4d4d",
                     trackColor |-> "rgba(255, 255, 255, 0.15)",
                     fontFamily |-> "Inter, Roboto, Helvetica, Arial, sans-serif"]]

ShapeShifterConfig ==
  [id |-> "ShapeShifter", durationInFrames |-> 300, fps |-> 30,
   width |-> 3840, height |-> 2160,
   defaultProps |-> [color |-> "#ffffff", size |-> 1200, thickness |-> 30]]

NeonEqualizerConfig ==
  [id |-> "NeonEqualizer", component |-> "NeonEqualizer",
   width |-> 3840, height |-> 2160, fps |-> 30, durationInSeconds |-> 10,
   defaultProps |-> <<>>]

CyberpunkDataRingConfig ==
  [id |-> "CyberpunkDataRing", durationInFrames |-> 300, fps |-> 30,
   width |-> 3840, height |-> 2160,
   defaultProps |-> [primaryColor |-> "#00ff00", iconSize |-> 1200]]

ReededGlassPinkConfig ==
  [id |-> "ReededGlassPink", durationInSeconds |-> 10, fps |-> 30,
   width |-> 3840, height |-> 2160,
   defaultProps |-> [stripCount |-> 40, glassBlur |-> 25,
                     colors |-> <<"#ffcc33", "#ffb347", "#ffffff", "#fdf5e6">>]]

NeonSaberCountdownConfig ==
  [id |-> "NeonSaberCountdown", durationInSeconds |-> 11, fps |-> 30,
   width |-> 3840, height |-> 2160,
   defaultProps |-> [startNumber |-> 10, color |-> "#00FFFF",
                     coreColor |-> "#FFFFFF", fontSize |-> 800]]

CleanProgressBarConfig ==
  [id |-> "CleanProgressBar", durationInFrames |-> 300, fps |-> 30,
   width |-> 3840, height |-> 2160]

SegmentedCountdownConfig ==
  [id |-> "SegmentedCountdown", durationInSeconds |-> 30, fps |-> 30,
   width |-> 3840, height |-> 2160,
   defaultProps |-> [ticksCount |-> 100, radius |-> 450, tickLength |-> 60,
                     tickWidth |-> 12, activeColor |-> "#00F0FF",
                     trackColor |-> "#1a1a1a04",
                     fontFamily |-> "Roboto, Inter, Helvetica, Arial, sans-serif"]]

NeonGrowthConfig ==
  [id |-> "NeonGrowth", durationInSeconds |-> 10, fps |-> 30,
   width |-> 3840, height |-> 2160,
   defaultProps |-> [neonColor |-> "#ffffffff", baseScale |-> "2.5"]]

NeonRecIndicatorConfig ==
  [id |-> "NeonRecIndicator", component |-> "NeonRecIndicator",
   width |-> 3840, height |-> 2160, fps |-> 30, durationInSeconds |-> 10,
   defaultProps |-> <<>>]

AuroraMeshGradientConfig ==
  [id |-> "AuroraMeshGradient", durationInSeconds |-> 8, fps |-> 30,
   width |-> 4096, height |-> 2160,
   defaultProps |-> [colors |-> <<"#00d2ff", "#00ff9d", "#006994", "#004d40", "#e0f7fa">>,
                     bgColor |-> "#00151a", blurAmount |-> 220,
                     noiseOpacity |-> "0.02"]]

SpeedDemonSpinnerConfig ==
  [id |-> "SpeedDemonSpinner", durationInFrames |-> 300, fps |-> 30,
   width |-> 3840, height |-> 2160,
   defaultProps |-> [cyanColor |-> "#00FFFF", iconSize |-> 1200,
                     strokeThickness |-> 40]]

\* Variant: a bundle written without its duration.
newsConfig_NoDuration ==
  [id |-> "BreakingNews", fps |-> 30,
   width |-> 3840, height |-> 2160,
   defaultProps |-> [primaryColor |-> "#D00000", secondaryColor |-> "#FFFFFF",
                     tickerColor |-> "#1a1a1a", accentColor |-> "#FFD700",
                     headlineText |-> "MAJOR CYBER ATTACK REPORTED GLOBALLY",
                     tickerText |-> " *  URGENT: INTERNET SERVICES DISRUPTED IN MULTIPLE REGIONS  *  EXPERTS ADVISE CAUTION  *  STAY TUNED FOR LIVE UPDATES  *  MARKETS REACT SHARPLY TO OUTAGE",
                     categoryText |-> "BREAKING NEWS"]]

newsConfig ==
  [id |-> "BreakingNews", durationInSeconds |-> 10, fps |-> 30,
   width |-> 3840, height |-> 2160,
   defaultProps |-> [primaryColor |-> "#D00000", secondaryColor |-> "#FFFFFF",
                     tickerColor |-> "#1a1a1a", accentColor |-> "#FFD700",
                     headlineText |-> "MAJOR CYBER ATTACK REPORTED GLOBALLY",
                     tickerText |-> " *  URGENT: INTERNET SERVICES DISRUPTED IN MULTIPLE REGIONS  *  EXPERTS ADVISE CAUTION  *  STAY TUNED FOR LIVE UPDATES  *  MARKETS REACT SHARPLY TO OUTAGE",
                     categoryText |-> "BREAKING NEWS"]]

NeonEKGConfig ==
  [id |-> "NeonEKG", durationInSeconds |-> 15, fps |-> 30,
   width |-> 3840, height |-> 2160,
   defaultProps |-> [gridSize |-> 100, lineColor |-> "#00FF00",
                     gridColor |-> "#003300", beatFrequency |-> 30,
                     flatlineStart |-> 210]]

DualNeonChaseConfig ==
  [id |-> "DualNeonChase", durationInSeconds |-> 10, fps |-> 30,
   width |-> 3840, height |-> 2160,
   defaultProps |-> [color1 |-> "#39FF14", color2 |-> "#39FF14",
                     thickness |-> 15, glowIntensity |-> 1]]

\* Every bundle the library exports.
compositionConfigs ==
  << NeonYearLoadConfig, GlowingStringLightsConfig, StreamGlitchConfig,
    ZenProgressBarConfig, NeonCircleFrameConfig, FallingHeartsEmojiConfig,
    GyroscopeV2Config, NeonLiveIndicatorConfig, ErrorCrossConfig,
    GlowingLightsStringConfig, NeonRadioWavesConfig, SuccessCheckmarkConfig,
    FloatingSliderConfig, ShapeShifterConfig, NeonEqualizerConfig,
    CyberpunkDataRingConfig, ReededGlassPinkConfig, NeonSaberCountdownConfig,
    CleanProgressBarConfig, SegmentedCountdownConfig, NeonGrowthConfig,
    NeonRecIndicatorConfig, AuroraMeshGradientConfig, SpeedDemonSpinnerConfig,
    newsConfig, NeonEKGConfig, DualNeonChaseConfig >>

ConfigOf(id) ==
  compositionConfigs[CHOOSE i \in DOMAIN compositionConfigs :
                       compositionConfigs[i].id = id]

HasField(r, f) == f \in DOMAIN r

\* The frame count of a bundle: durationInFrames as written, or
\* durationInSeconds * fps ("9 seconds = exactly 3 cycles" of 90 frames at 30 fps).
DurationInFrames(cfg) ==
  IF HasField(cfg, "durationInFrames") THEN cfg.durationInFrames
  ELSE cfg.durationInSeconds * cfg.fps

\* What useVideoConfig() hands to the components of a mounted bundle.
VideoConfig(cfg) ==
  [width |-> cfg.width, height |-> cfg.height, fps |-> cfg.fps,
   durationInFrames |-> DurationInFrames(cfg)]

(***************************************************************************)
(* remotion helpers                                                         *)
(***************************************************************************)
\* interpolate(input, [inMin, inMax], [outMin, outMax], {extrapolateLeft,
\* extrapolateRight}) with linear easing; the value is the result over the
\* denominator (inMax - inMin).  Options are "extend" (the default) or "clamp".
interpolate(input, inMin, inMax, outMin, outMax, exLeft, exRight) ==
  LET x == IF input < inMin /\ exLeft = "clamp" THEN inMin
           ELSE IF input > inMax /\ exRight = "clamp" THEN inMax
           ELSE input
  IN  outMin * (inMax - inMin) + (x - inMin) * (outMax - outMin)

\* Math.floor and Math.ceil of num / den, den > 0.
Floor(num, den) == num \div den

Ceil(num, den) == 0 - ((0 - num) \div den)

\* Resolution of the unit interval in which random() values are written.
RandomRes == 100

\* random(seed): remotion's deterministic pseudo-random number in [0, 1),
\* the same for the same seed; the value is the result over RandomRes.
random(seed) == ((seed * 7919 + 104729) % 65521) % RandomRes

(***************************************************************************)
(* CleanProgressBar                                                        *)
(***************************************************************************)
\* Variant: the input range ends at durationInFrames, the value the FIX
\* comment of the component replaced.
CleanProgressBarLastInput_FullDuration(v) == v.durationInFrames

\* the end of the input range: "Subtract 1 from duration so the last frame
\* maps to exactly 1.0"
CleanProgressBarLastInput(v) == v.durationInFrames - 1

\* progress over CleanProgressBarLastInput
CleanProgressBarProgress(f, v) ==
  interpolate(f, 0, CleanProgressBarLastInput(v), 0, 1, "extend", "clamp")

CleanProgressBar(f, v) ==
  LET den        == CleanProgressBarLastInput(v)
      progress   == CleanProgressBarProgress(f, v)
      percentage == Floor(progress * 100, den)
  IN  [label |-> "Loading...",
       fillWidth |-> progress * 100,        \* percent, over den
       percentage |-> percentage]

(***************************************************************************)
(* NeonYearLoad                                                            *)
(***************************************************************************)
\* Variant: the fill is not clamped at the end of its input range.
NeonYearLoadProgress_Unclamped(f, v) ==
  interpolate(f, 0, v.durationInFrames - 20, 0, 100, "extend", "extend")

\* progress (0..100) over (durationInFrames - 20)
NeonYearLoadProgress(f, v) ==
  interpolate(f, 0, v.durationInFrames - 20, 0, 100, "extend", "clamp")

NeonYearLoad(f, p, v) ==
  LET den            == v.durationInFrames - 20
      progress       == NeonYearLoadProgress(f, v)
      percentDisplay == Floor(progress, den)
      flicker        == random(f) * 2 + 9 * RandomRes   \* over 10 * RandomRes
  IN  [percentDisplay |-> percentDisplay,
       fillWidth |-> progress,              \* percent, over den
       flicker |-> flicker,
       yearStart |-> p.yearStart, yearEnd |-> p.yearEnd]

(***************************************************************************)
(* SegmentedCountdown                                                      *)
(***************************************************************************)
\* Math.ceil(interpolate(frame, [0, durationInFrames], [30, 0], clamp))
remainingSeconds(f, v) ==
  Ceil(interpolate(f, 0, v.durationInFrames, 30, 0, "clamp", "clamp"),
       v.durationInFrames)

\* opacity of active tick i, over durationInFrames
TickOpacity(i, f, p, v) ==
  LET den      == v.durationInFrames
      progress == interpolate(f, 0, den, 1, 0, "clamp", "clamp")
      currentTickThreshold == progress * p.ticksCount
      diff     == currentTickThreshold - i * den
  IN  IF diff > den THEN den ELSE IF diff < 0 THEN 0 ELSE diff

SegmentedCountdown(f, p, v) ==
  [remainingSeconds |-> remainingSeconds(f, v),
   activeTicks |-> [i \in 1..p.ticksCount |-> TickOpacity(i - 1, f, p, v)],
   label |-> "SECONDS"]

(***************************************************************************)
(* NeonSaberCountdown                                                      *)
(***************************************************************************)
\* exit physics of SaberNumber: exitProgress over 8, exitOpacity over 4,
\* exitScale over 80, exitBlur over 8
SaberNumber(number, localFrame, config, fps) ==
  LET exitProgress == interpolate(localFrame, fps - 8, fps, 0, 1, "clamp", "clamp")
      exitScale    == interpolate(exitProgress, 0, 8, 10, 11, "extend", "extend")
      exitBlur     == interpolate(exitProgress, 0, 8, 0, 30, "extend", "extend")
      exitOpacity  == interpolate(exitProgress, 4, 8, 1, 0, "extend", "extend")
  IN  [key |-> number, number |-> number, localFrame |-> localFrame,
       exitProgress |-> exitProgress, exitScale |-> exitScale,
       exitBlur |-> exitBlur, exitOpacity |-> exitOpacity,
       auraOpacity |-> exitOpacity,          \* 0.5 * exitOpacity, over 8
       glowOpacity |-> exitOpacity, coreOpacity |-> exitOpacity,
       color |-> config.color, coreColor |-> config.coreColor,
       fontSize |-> config.fontSize]

\* Variant: the early return also swallows the number 0.
NeonSaberCountdown_BlankAtZero(f, p, v) ==
  LET fps                == v.fps
      currentSecondIndex == Floor(f, fps)
      displayNumber      == p.startNumber - currentSecondIndex
      localFrame         == f % fps
  IN  IF displayNumber <= 0
      THEN [backgroundColor |-> "#000000", children |-> <<>>]
      ELSE [backgroundColor |-> "#000000",
            children |-> <<SaberNumber(displayNumber, localFrame, p, fps)>>]

NeonSaberCountdown(f, p, v) ==
  LET fps                == v.fps
      currentSecondIndex == Floor(f, fps)
      displayNumber      == p.startNumber - currentSecondIndex
      localFrame         == f % fps
  IN  IF displayNumber < 0
      THEN [backgroundColor |-> "#000000", children |-> <<>>]
      ELSE [backgroundColor |-> "#000000",
            children |-> <<SaberNumber(displayNumber, localFrame, p, fps)>>]

(***************************************************************************)
(* Linear loops: NeonCircleFrame, CyberpunkDataRing, ShapeShifter,         *)
(* DualNeonChase                                                           *)
(***************************************************************************)
\* Math.PI * 100000
PiE5 == 314159

\* rotation in degrees, over durationInFrames
NeonCircleFrameRotation(f, v) ==
  interpolate(f, 0, v.durationInFrames, 0, 360, "extend", "extend")

NeonCircleFrame(f, p, v) ==
  LET rotation == NeonCircleFrameRotation(f, v)
      holeSize == p.iconSize - (p.strokeThickness * 2)
  IN  [gradientFrom |-> rotation,
       gradientColors |-> <<p.cyanColor, p.pinkColor, p.cyanColor>>,
       discSize |-> p.iconSize, holeSize |-> holeSize,
       holeOffset |-> p.strokeThickness]

\* Variant: a ring turns half a revolution per unit of rotationSpeed.
currentRotation_HalfTurn(f, v, rotationSpeed, rotationDirection) ==
  LET totalRotation == 180 * rotationSpeed * rotationDirection
  IN  interpolate(f, 0, v.durationInFrames, 0, totalRotation, "extend", "extend")

\* currentRotation in degrees, over durationInFrames
currentRotation(f, v, rotationSpeed, rotationDirection) ==
  LET totalRotation == 360 * rotationSpeed * rotationDirection
  IN  interpolate(f, 0, v.durationInFrames, 0, totalRotation, "extend", "extend")

RingLayer(radius, thickness, color, rotationSpeed, dashArray, rotationDirection, f, v) ==
  LET size == (radius + thickness) * 2
  IN  [size |-> size, center |-> size \div 2, r |-> radius,
       stroke |-> color, strokeWidth |-> thickness,
       strokeDasharray |-> dashArray,                \* tenths of a pixel
       rotate |-> currentRotation(f, v, rotationSpeed, rotationDirection)]

CyberpunkDataRing(f, p, v) ==
  LET outerRadius    == (p.iconSize * 45) \div 100
      outerThickness == (p.iconSize * 3) \div 100
      innerRadius    == (p.iconSize * 3) \div 10
      innerThickness == (p.iconSize * 2) \div 100
  IN  [rings |-> << RingLayer(outerRadius, outerThickness, p.primaryColor, 1,
                              <<outerRadius * 5, outerRadius * 2>>, 1, f, v),
                    RingLayer(innerRadius, innerThickness, p.primaryColor, 3,
                              <<innerRadius * 2, innerRadius * 2>>, -1, f, v) >>]

\* rotation in degrees, over durationInFrames
ShapeShifterRotation(f, v) ==
  interpolate(f, 0, v.durationInFrames, 0, 360, "extend", "extend")

\* The eased border radius (Easing.inOut(Easing.ease)) is not part of the
\* modelled description.
ShapeShifter(f, p, v) ==
  [width |-> p.size, height |-> p.size, borderWidth |-> p.thickness,
   borderColor |-> p.color, rotate |-> ShapeShifterRotation(f, v)]

\* perimeter of the rounded rectangle, in tenths of a pixel
DualNeonChasePerimeter ==
  LET rectW == 3400
      rectH == 1900
      cornerRadius == 60
  IN  ((rectW - 2 * cornerRadius) * 2 + (rectH - 2 * cornerRadius) * 2) * 10
      + (2 * PiE5 * cornerRadius) \div 10000

\* baseOffset in tenths of a pixel, over durationInFrames
baseOffset(f, v) ==
  interpolate(f, 0, v.durationInFrames, 0, 0 - DualNeonChasePerimeter,
              "extend", "extend")

\* one beam: dash array in tenths of a pixel over 10, dash offset in
\* tenths of a pixel over 2 * durationInFrames; offsetModifier is over 2
renderBeam(color, offsetModifier2, f, p, v) ==
  LET perimeter     == DualNeonChasePerimeter
      beamLength    == perimeter * 4
      currentOffset == 2 * baseOffset(f, v) - offsetModifier2 * v.durationInFrames
  IN  [stroke |-> color,
       strokeDasharray |-> <<beamLength, perimeter * 10 - beamLength>>,
       strokeDashoffset |-> currentOffset,
       coreWidth |-> p.thickness]

DualNeonChase(f, p, v) ==
  [beams |-> << renderBeam(p.color1, 0, f, p, v),
                renderBeam(p.color2, DualNeonChasePerimeter, f, p, v) >>]

(***************************************************************************)
(* StreamGlitch                                                            *)
(***************************************************************************)
\* beamProgress over 10 * scanDuration
beamProgress(f, p) ==
  LET beamCycle == f % p.scanDuration
  IN  interpolate(beamCycle, 0, p.scanDuration, -2, 12, "extend", "extend")

\* scrollOffset in pixels, over scanDuration
Scanlines(f, scanDuration) ==
  LET cycleFrame == f % scanDuration
  IN  [scrollOffset |-> cycleFrame * 16]

\* Variant: the noise seed uses the frame itself, not the frame in its scan.
GlitchSeed_RawFrame(index, f, config) == index * 123 + f

\* seed of one character's noise
GlitchSeed(index, f, config) ==
  LET loopFrame == f % config.scanDuration
  IN  index * 123 + loopFrame

\* jitter over 2 * RandomRes, opacity over 2 * RandomRes, blockX over RandomRes
GlitchChar(char, index, bp, totalChars, config, f) ==
  LET den    == 10 * config.scanDuration
      d      == bp * totalChars - index * den       \* (beamProgress - charPos) * den * totalChars
      dist   == IF d < 0 THEN 0 - d ELSE d
      isHit  == dist * 100 < 15 * den * totalChars
      seed   == GlitchSeed(index, f, config)
      jitterX == (2 * random(seed) - RandomRes) * (IF isHit THEN 60 ELSE 4)
      jitterY == (2 * random(seed + 1) - RandomRes) * (IF isHit THEN 10 ELSE 2)
      isFlicker == random(seed + 2) * 100 > 95 * RandomRes
      color   == IF isHit \/ isFlicker THEN config.accentColor ELSE config.baseColor
      opacity == IF isHit THEN random(seed + 3) + RandomRes ELSE 2 * RandomRes
      split   == IF isHit THEN 20 ELSE 0
      block   == isHit /\ random(seed + 4) * 10 > 7 * RandomRes
  IN  [char |-> char, isHit |-> isHit, jitterX |-> jitterX, jitterY |-> jitterY,
       color |-> color, opacity |-> opacity, split |-> split,
       redColor |-> IF isHit THEN "#FF0000" ELSE color,
       blueColor |-> IF isHit THEN "#0000FF" ELSE color,
       block |-> block,
       blockX |-> IF block THEN random(seed + 5) * 20 ELSE 0]

StreamGlitch(f, p, v) ==
  LET bp    == beamProgress(f, p)
      chars == p.primaryText
  IN  [secondaryText |-> p.secondaryText,
       chars |-> [i \in 1..Len(chars) |->
                    GlitchChar(chars[i], i - 1, bp, Len(chars), p, f)],
       beamLeft |-> bp * 100 - 50 * 10 * p.scanDuration,   \* percent, over 10 * scanDuration
       scanlines |-> Scanlines(f, p.scanDuration)]

(***************************************************************************)
(* FallingHeartsEmoji                                                      *)
(***************************************************************************)
HEART_COUNT == 50

COLORS == <<"#FF2400", "#FF1493", "#FFB6C1">>

LOOP_HEIGHT(v) == v.height + 400

\* hearts, the memoized particle list; x over 10 * RandomRes, size over
\* RandomRes, startYOffset in pixels over RandomRes
HeartParticle(i, v) ==
  LET seed == i
  IN  [id |-> i,
       x |-> random(seed) * 12 - RandomRes,
       size |-> 40 * RandomRes + random(seed + 1) * 80,
       color |-> COLORS[Floor(random(seed + 2) * Len(COLORS), RandomRes) + 1],
       speedMultiplier |-> 1,
       swayAmplitude |-> 50 * RandomRes + random(seed + 3) * 100,
       swayPhase |-> random(seed + 4),                 \* turns, over RandomRes
       rotationSpeed |-> (2 * random(seed + 5) - RandomRes) * 30,
       rotationPhase |-> random(seed + 6),             \* turns, over RandomRes
       startYOffset |-> random(seed + 7) * LOOP_HEIGHT(v)]

hearts(v) == [j \in 1..HEART_COUNT |-> HeartParticle(j - 1, v)]

\* Variant: the raw position is wrapped by the screen height only.
wrappedY_ScreenHeight(heart, f, v) ==
  LET den           == RandomRes * v.durationInFrames
      totalDistance == LOOP_HEIGHT(v) * heart.speedMultiplier
      rawY          == heart.startYOffset * v.durationInFrames
                       + f * totalDistance * RandomRes
  IN  rawY % (v.height * den)

\* wrappedY in pixels, over RandomRes * durationInFrames
wrappedY(heart, f, v) ==
  LET den           == RandomRes * v.durationInFrames
      totalDistance == LOOP_HEIGHT(v) * heart.speedMultiplier
      rawY          == heart.startYOffset * v.durationInFrames
                       + f * totalDistance * RandomRes      \* progress * totalDistance
  IN  rawY % (LOOP_HEIGHT(v) * den)

\* finalY in pixels, over RandomRes * durationInFrames
finalY(heart, f, v) == wrappedY(heart, f, v) - 200 * RandomRes * v.durationInFrames

\* The description of the hearts; the sine sway and rocking rotation are not
\* part of the modelled description.
FallingHeartsEmoji(f, v, particles) ==
  [backgroundColor |-> "#15ff00ff",
   hearts |-> [j \in 1..Len(particles) |->
                 [key |-> particles[j].id,
                  baseX |-> particles[j].x * v.width,
                  finalY |-> finalY(particles[j], f, v),
                  color |-> particles[j].color,
                  fontSize |-> particles[j].size]]]

(***************************************************************************)
(* SpeedDemonSpinner                                                       *)
(***************************************************************************)
\* heavyRushEasing = Easing.bezier(0.8, 0.0, 0.2, 1.0) applied to
\* frameInCycle / framesPerCycle and mapped to [0, 360]: the cycle rotation in
\* thousandths of a degree.  The curve is evaluated on a grid of 300 parameter
\* steps (x scaled by 5 * 300^3) and interpolated linearly between grid points.
cycleRotation(frameInCycle, framesPerCycle) ==
  LET T     == 300
      XS(n) == 12 * n * (T - n) * (T - n) + 3 * n * n * (T - n) + 5 * n * n * n
      YM(n) == (3 * n * n * T - 2 * n * n * n) \div 75
      XT    == frameInCycle * ((5 * T * T * T) \div framesPerCycle)
      n     == CHOOSE m \in 1..T : XS(m) >= XT /\ (m = 1 \/ XS(m - 1) < XT)
  IN  YM(n - 1) + ((YM(n) - YM(n - 1)) * (XT - XS(n - 1))) \div (XS(n) - XS(n - 1))

\* totalRotation in thousandths of a degree
totalRotation(f, v) ==
  LET cycles            == 2
      framesPerCycle    == v.durationInFrames \div cycles
      currentCycleIndex == Floor(f, framesPerCycle)
      frameInCycle      == f % framesPerCycle
  IN  (currentCycleIndex * 360000) + cycleRotation(frameInCycle, framesPerCycle)

numTailSegments == 20

\* geometry: center, radius in pixels, perimeter in hundredths of a pixel
SpinnerCenter(p) == p.iconSize \div 2

SpinnerRadius(p) == (p.iconSize \div 2) - p.strokeThickness

SpinnerPerimeter(p) == (2 * PiE5 * SpinnerRadius(p)) \div 1000

\* One element of the stack: opacity over (numTailSegments - 1), blur over
\* (numTailSegments - 1), rotation in thousandths of a degree, visibleLength
\* in hundredths of a pixel over 20 * (numTailSegments - 1).
CometSegment(i, rot, p) ==
  LET last            == numTailSegments - 1
      opacity         == interpolate(i, 0, last, 1, 0, "extend", "extend")
      blur            == interpolate(i, 0, last, 0, 20, "extend", "extend")
      rotationLag     == i * 2500
      tailLengthRatio == interpolate(i, 0, last, 2, 7, "extend", "extend")  \* over 20 * last
      visibleLength   == SpinnerPerimeter(p) * tailLengthRatio
  IN  [key |-> i, center |-> SpinnerCenter(p), radius |-> SpinnerRadius(p),
       thickness |-> p.strokeThickness, color |-> p.cyanColor,
       opacity |-> opacity, blur |-> blur,
       rotation |-> rot - rotationLag,
       dashArray |-> <<visibleLength, SpinnerPerimeter(p)>>,
       dashOffset |-> 0 - visibleLength]

\* the array the useMemo factory builds: index 0 (the head) first
tailStackFactory(f, p, v) ==
  LET rot == totalRotation(f, v)
  IN  [j \in 1..numTailSegments |-> CometSegment(j - 1, rot, p)]

\* the dependency list of the useMemo
tailStackDeps(f, p, v) ==
  <<SpinnerCenter(p), SpinnerRadius(p), p.strokeThickness, p.cyanColor,
    SpinnerPerimeter(p), totalRotation(f, v)>>

\* Array.prototype.reverse
reverse(a) == [j \in 1..Len(a) |-> a[Len(a) + 1 - j]]

\* useMemo(factory, deps): the cached value when the dependencies are those
\* of the previous render, a new value otherwise
useMemo(m, fresh, deps) == IF m.deps = deps THEN m.value ELSE fresh

\* useMemo(...).reverse(): reverse() reverses the array it is called on in
\* place and returns that same array, so the array held by the hook cache is
\* the reversed one after the render.
SpeedDemonSpinner(f, p, v, m) ==
  LET deps      == tailStackDeps(f, p, v)
      memoized  == useMemo(m, tailStackFactory(f, p, v), deps)
      tailStack == reverse(memoized)
  IN  [out  |-> [backgroundColor |-> "#000000",
                 track |-> [r |-> SpinnerRadius(p), stroke |-> p.cyanColor,
                            strokeWidth2 |-> p.strokeThickness],
                 tailStack |-> tailStack],
       memo |-> [deps |-> deps, value |-> tailStack]]

(***************************************************************************)
(* AuroraMeshGradient                                                      *)
(***************************************************************************)
\* arr[index] of a JavaScript array (indices from 0): an index outside the
\* array reads undefined.
ArrayAt(arr, index) ==
  IF index >= 0 /\ index < Len(arr) THEN arr[index + 1] ELSE "undefined"

\* One blob at frame f.  orbitRadiusX and orbitRadiusY are over 100,
\* progress (the turn fraction that angle = progress * 2 * PI stands for,
\* times direction) is over durationInFrames; the sine and cosine of the
\* seed and of the angle are not evaluated, so x, y and the breathing size
\* are left out.
OrganicBlob(color, seed, baseSize, f, v) ==
  LET orbitRadiusX == v.width * (15 + (seed % 3) * 5)
      orbitRadiusY == v.height * (15 + ((seed + 1) % 3) * 5)
      direction    == IF seed % 2 = 0 THEN 1 ELSE -1
  IN  [color |-> color, seed |-> seed, baseSize |-> baseSize,
       radiusTermX |-> seed % 3, radiusTermY |-> (seed + 1) % 3,
       orbitRadiusX |-> orbitRadiusX, orbitRadiusY |-> orbitRadiusY,
       direction |-> direction, turn |-> f * direction,
       background |-> <<"radial-gradient", color, "transparent">>]

\* The colour index of each of the six blobs.
blobColorIndexes == <<0, 1, 2, 3, 4, 0>>

\* The array the blobs hook builds; baseSize is over 10.
blobs(p, v) ==
  [i \in 1..Len(blobColorIndexes) |->
     [color    |-> ArrayAt(p.colors, blobColorIndexes[i]),
      seed     |-> (i - 1) * 45,
      baseSize |-> (IF v.width > v.height THEN v.width ELSE v.height) * 6]]

AuroraMeshGradient(f, p, v, m) ==
  LET deps == <<p.colors, v.width, v.height>>
      bs   == useMemo(m, blobs(p, v), deps)
  IN  [out |-> [backgroundColor |-> p.bgColor, blurAmount |-> p.blurAmount,
                blobs |-> [i \in 1..Len(bs) |->
                             OrganicBlob(bs[i].color, bs[i].seed,
                                         bs[i].baseSize, f, v)],
                noiseOpacity |-> p.noiseOpacity],
       memo |-> [deps |-> deps, value |-> bs]]

(***************************************************************************)
(* NeonEKG                                                                 *)
(***************************************************************************)
\* const speed = 20: pixels the trace scrolls per frame
speed == 20

\* Variant: the offset measured from the left edge.
timeOffset_FromLeft(x, v) == x

\* How far back in pixels the point at x is.
timeOffset(x, v) == v.width - x

\* The point pushed for pixel x at frame f.  visualTime is in pixels, so
\* tFrame = visualTime / speed is visualTime over speed.  The y offset from
\* height / 2 is y + sinAmplitude * sin(sinArg); the sine is not evaluated.
\* sinArg is in units of PI over speed * beatFrequency (P wave) and over
\* 10 * speed * beatFrequency (T wave), and in radians over speed (flatline).  beatProgress is beatPhase over
\* speed * beatFrequency; every tFrame is a multiple of 1/2, so the
\* comparisons with 0.1, 0.2, 0.4, 0.5, 0.6 and 0.75 are exact in floating
\* point and no tFrame falls on 0.43 or 0.47.
ekgPoint(x, f, p, v) ==
  LET visualTime == f * speed - timeOffset(x, v)
      beatLen    == speed * p.beatFrequency
      beatPhase  == visualTime % beatLen
      wave ==
        IF visualTime < speed * p.flatlineStart
        THEN IF beatPhase * 10 > beatLen /\ beatPhase * 10 < 2 * beatLen
             THEN [wave |-> "P", y |-> 0, sinAmplitude |-> -30,
                   sinArg |-> beatPhase * 10 - beatLen]
             ELSE IF beatPhase * 10 > 4 * beatLen /\ beatPhase * 100 < 43 * beatLen
             THEN [wave |-> "Q", y |-> 50, sinAmplitude |-> 0, sinArg |-> 0]
             ELSE IF beatPhase * 100 >= 43 * beatLen /\ beatPhase * 100 < 47 * beatLen
             THEN [wave |-> "R", y |-> -400, sinAmplitude |-> 0, sinArg |-> 0]
             ELSE IF beatPhase * 100 >= 47 * beatLen /\ beatPhase * 10 < 5 * beatLen
             THEN [wave |-> "S", y |-> 80, sinAmplitude |-> 0, sinArg |-> 0]
             ELSE IF beatPhase * 10 > 6 * beatLen /\ beatPhase * 100 < 75 * beatLen
             THEN [wave |-> "T", y |-> 0, sinAmplitude |-> -60,
                   sinArg |-> (beatPhase * 10 - 6 * beatLen) * 6]
             ELSE [wave |-> "baseline", y |-> 0, sinAmplitude |-> 0, sinArg |-> 0]
        ELSE [wave |-> "flatline", y |-> 0, sinAmplitude |-> 2, sinArg |-> visualTime]
  IN  [x |-> x, visualTime |-> visualTime, wave |-> wave.wave, y |-> wave.y,
       sinAmplitude |-> wave.sinAmplitude, sinArg |-> wave.sinArg]

\* The points of the polyline, in the order they are pushed: one for every
\* x = 0, 10, ... <= width whose tFrame is not negative.  The points are
\* kept as records; the code joins them into the string "x,y x,y ...".
polylinePointsFactory(f, p, v) ==
  LET all  == [k \in 1..(v.width \div 10 + 1) |-> ekgPoint(10 * (k - 1), f, p, v)]
      drawn(pt) == ~(pt.visualTime < 0)
  IN  SelectSeq(all, drawn)

polylinePointsDeps(f, p, v) ==
  <<f, v.width, v.height, p.beatFrequency, p.flatlineStart>>

\* The description NeonEKG returns.  The first hook's array (points) is
\* never rendered and is left out.
NeonEKG(f, p, v, m) ==
  LET deps           == polylinePointsDeps(f, p, v)
      polylinePoints == useMemo(m, polylinePointsFactory(f, p, v), deps)
  IN  [out |-> [backgroundColor |-> "#000500",
                grid |-> [size |-> p.gridSize, color |-> p.gridColor],
                width |-> v.width, height |-> v.height,
                points |-> polylinePoints,
                stroke |-> p.lineColor, strokeWidth |-> 8],
       memo |-> [deps |-> deps, value |-> polylinePoints]]

(***************************************************************************)
(* BreakingNews                                                            *)
(***************************************************************************)
\* The globe's rotation in degrees, over 300.
RotatingGlobe(color, f) ==
  [color |-> color, rotation |-> interpolate(f, 0, 300, 0, 360, "extend", "extend")]

\* The blinking LIVE badge: opacity over 150 (1 at 0, 0.4 at 15, 1 at 30).
LiveIndicator(f) ==
  LET t == f % 30
  IN  [opacity |-> IF t <= 15
                   THEN interpolate(t, 0, 15, 10, 4, "extend", "extend")
                   ELSE interpolate(t, 15, 30, 4, 10, "extend", "extend")]

\* The headline's reveal opacity, over 10.
textOpacity(f) == interpolate(f, 15, 25, 0, 1, "extend", "extend")

\* The description BreakingNews returns.  The entry spring is not evaluated,
\* so the slide-in offset is left out.
BreakingNews(f, p, v) ==
  LET tickerOffset == (f * 6) % 2000
  IN  [containerWidth |-> v.width - 200,
       live |-> LiveIndicator(f),
       globe |-> RotatingGlobe("rgba(255,255,255,0.4)", f),
       categoryText |-> p.categoryText,
       headline |-> [text |-> p.headlineText, opacity |-> textOpacity(f)],
       ticker |-> [text |-> p.tickerText, copies |-> 4,
                   translateX |-> 0 - tickerOffset,
                   accentColor |-> p.accentColor]]

(***************************************************************************)
(* The renderer                                                            *)
(***************************************************************************)
\* The compositions whose components are modelled.
Components ==
  { "CleanProgressBar", "NeonYearLoad", "SegmentedCountdown",
    "NeonSaberCountdown", "NeonCircleFrame", "CyberpunkDataRing",
    "ShapeShifter", "DualNeonChase", "StreamGlitch", "FallingHeartsEmoji",
    "SpeedDemonSpinner", "AuroraMeshGradient", "NeonEKG", "BreakingNews" }

\* A start number other than the default, passed as input props.
AltStartNumber == 3

\* The largest colour palette passed as input props.
MaxPaletteSize == 6

\* A palette of n colours, drawn from the default palette in its order.
Palette(n) ==
  LET d == AuroraMeshGradientConfig.defaultProps.colors
  IN  [k \in 1..n |-> d[((k - 1) % Len(d)) + 1]]

\* The props a composition is mounted with: its defaultProps (none for a
\* component that takes no props), or input props overriding them.
PropsChoices(id) ==
  LET cfg == ConfigOf(id)
      def == IF HasField(cfg, "defaultProps") THEN cfg.defaultProps ELSE <<>>
  IN  IF id = "NeonSaberCountdown"
      THEN {def, [def EXCEPT !.startNumber = AltStartNumber]}
      ELSE IF id = "AuroraMeshGradient"
      THEN {[def EXCEPT !.colors = Palette(n)] : n \in 1..MaxPaletteSize}
      ELSE {def}

\* The hook cache of an instance that has not rendered yet.
EmptyMemo == [deps |-> <<"unset">>, value |-> <<>>]

\* One render of the mounted component: the description it returns and the
\* hook cache it leaves behind.
Render(id, f, p, v, m) ==
  CASE id = "CleanProgressBar"   -> [out |-> CleanProgressBar(f, v), memo |-> m]
    [] id = "NeonYearLoad"       -> [out |-> NeonYearLoad(f, p, v), memo |-> m]
    [] id = "SegmentedCountdown" -> [out |-> SegmentedCountdown(f, p, v), memo |-> m]
    [] id = "NeonSaberCountdown" -> [out |-> NeonSaberCountdown(f, p, v), memo |-> m]
    [] id = "NeonCircleFrame"    -> [out |-> NeonCircleFrame(f, p, v), memo |-> m]
    [] id = "CyberpunkDataRing"  -> [out |-> CyberpunkDataRing(f, p, v), memo |-> m]
    [] id = "ShapeShifter"       -> [out |-> ShapeShifter(f, p, v), memo |-> m]
    [] id = "DualNeonChase"      -> [out |-> DualNeonChase(f, p, v), memo |-> m]
    [] id = "StreamGlitch"       -> [out |-> StreamGlitch(f, p, v), memo |-> m]
    [] id = "FallingHeartsEmoji" ->
         LET particles == useMemo(m, hearts(v), <<>>)
         IN  [out |-> FallingHeartsEmoji(f, v, particles),
              memo |-> [deps |-> <<>>, value |-> particles]]
    [] id = "SpeedDemonSpinner"  -> SpeedDemonSpinner(f, p, v, m)
    [] id = "AuroraMeshGradient" -> AuroraMeshGradient(f, p, v, m)
    [] id = "NeonEKG"            -> NeonEKG(f, p, v, m)
    [] id = "BreakingNews"       -> [out |-> BreakingNews(f, p, v), memo |-> m]

\* The framework mounts a composition and renders its first frame.
Mounted(id, p) ==
  LET v == VideoConfig(ConfigOf(id))
      r == Render(id, 0, p, v, EmptyMemo)
  IN  /\ comp' = id
      /\ props' = p
      /\ video' = v
      /\ frame' = 0
      /\ memo' = r.memo
      /\ out' = r.out

Init ==
  \E id \in Components : \E p \in PropsChoices(id) :
    LET v == VideoConfig(ConfigOf(id))
        r == Render(id, 0, p, v, EmptyMemo)
    IN  /\ comp = id
        /\ props = p
        /\ video = v
        /\ frame = 0
        /\ memo = r.memo
        /\ out = r.out

Mount == \E id \in Components : \E p \in PropsChoices(id) : Mounted(id, p)

\* The mounted instance renders frame f.
RenderFrame(f) ==
  LET r == Render(comp, f, props, video, memo)
  IN  /\ frame' = f
      /\ memo' = r.memo
      /\ out' = r.out
      /\ UNCHANGED <<comp, props, video>>

NextFrame == frame + 1 < video.durationInFrames /\ RenderFrame(frame + 1)

PrevFrame == frame > 0 /\ RenderFrame(frame - 1)

SeekStart == frame > 0 /\ RenderFrame(0)

\* React renders the instance again with the frame and the props unchanged.
ReRender == RenderFrame(frame)

Next == Mount \/ NextFrame \/ PrevFrame \/ SeekStart \/ ReRender

Spec == Init /\ [][Next]_vars

(***************************************************************************)
(* Properties                                                              *)
(***************************************************************************)
\* C1: the description returned for a frame depends only on the frame, the
\* props and the video configuration: whatever renders came before, it is the
\* description a fresh instance returns for that frame.
C1_DescriptionDependsOnlyOnFrame ==
  out = Render(comp, frame, props, video, EmptyMemo).out

\* C2: NeonSaberCountdown with startNumber 10 at 30 fps over 330 frames shows
\* exactly the number 10 - floor(frame / fps) on every frame, each of 10..0 on
\* exactly fps consecutive frames in descending order, no frame of the
\* composition is blank, and a frame with floor(frame / fps) > startNumber
\* returns only the black background.
ShownNumbers(f, p, v) ==
  LET d == NeonSaberCountdown(f, p, v)
  IN  {d.children[i].number : i \in 1..Len(d.children)}

C2_SaberCountsDown ==
  comp = "NeonSaberCountdown" =>
    /\ out.backgroundColor = "#000000"
    /\ (frame \div video.fps > props.startNumber => out.children = <<>>)
    /\ (props.startNumber = 10 =>
          /\ video.fps = 30
          /\ video.durationInFrames = 330
          /\ Len(out.children) = 1
          /\ out.children[1].number = 10 - (frame \div video.fps)
          /\ out.children[1].localFrame = frame % video.fps
          /\ (frame = video.durationInFrames - 1 =>
                \A n \in 0..10 :
                  {f \in 0..(video.durationInFrames - 1) :
                     ShownNumbers(f, props, video) = {n}}
                  = ((10 - n) * video.fps)..((10 - n) * video.fps + video.fps - 1)))

C2_Witness ==
  /\ comp = "NeonSaberCountdown"
  /\ props.startNumber = 10
  /\ frame = 329
  /\ Len(out.children) = 1
  /\ out.children[1].number = 0

\* C3: SegmentedCountdown shows 30 at frame 0, never a larger number on the
\* next frame, and 0 on the last rendered frame.
C3_CountsDownToZero ==
  comp = "SegmentedCountdown" =>
    /\ (frame = 0 => out.remainingSeconds = 30)
    /\ (frame + 1 < video.durationInFrames =>
          remainingSeconds(frame + 1, video) <= out.remainingSeconds)
    /\ (frame = video.durationInFrames - 1 => out.remainingSeconds = 0)

\* C4: CleanProgressBar shows 0% at frame 0, 100% on the last rendered frame,
\* less than 100% before it, never a smaller percentage on the next frame,
\* and always a percentage within 0..100.
C4_ProgressReaches100OnLastFrame ==
  comp = "CleanProgressBar" =>
    /\ (frame = 0 => out.percentage = 0)
    /\ (frame = video.durationInFrames - 1 => out.percentage = 100)
    /\ (frame < video.durationInFrames - 1 => out.percentage < 100)
    /\ (frame + 1 < video.durationInFrames =>
          CleanProgressBar(frame + 1, video).percentage >= out.percentage)
    /\ out.percentage \in 0..100

C4_Witness ==
  /\ comp = "CleanProgressBar"
  /\ frame = video.durationInFrames - 1
  /\ out.percentage = 100

\* C5: NeonYearLoad's percent and fill width never decrease, the percent is
\* below 100 before frame durationInFrames - 20 and 100 from there on, so the
\* last 20 frames show 100%.
C5_YearLoadSitsAt100 ==
  comp = "NeonYearLoad" =>
    LET d    == video.durationInFrames
        next == NeonYearLoad(frame + 1, props, video)
    IN  /\ (frame < d - 20 => out.percentDisplay < 100)
        /\ (frame >= d - 20 => out.percentDisplay = 100
                               /\ out.fillWidth = 100 * (d - 20))
        /\ (frame + 1 < d => /\ next.percentDisplay >= out.percentDisplay
                             /\ next.fillWidth >= out.fillWidth)

C5_Witness ==
  /\ comp = "NeonYearLoad"
  /\ frame = video.durationInFrames - 20
  /\ out.percentDisplay = 100

\* C6: StreamGlitch depends on the frame only through frame mod scanDuration:
\* the frame one scan later and the frame reduced mod scanDuration render the
\* same description, the composition is exactly 3 scans long, and frame
\* durationInFrames would render as frame 0 does.
C6_GlitchLoops ==
  comp = "StreamGlitch" =>
    /\ out = StreamGlitch(frame + props.scanDuration, props, video)
    /\ out = StreamGlitch(frame % props.scanDuration, props, video)
    /\ video.durationInFrames = 3 * props.scanDuration
    /\ (frame = 0 => out = StreamGlitch(video.durationInFrames, props, video))

C6_Witness ==
  /\ comp = "StreamGlitch"
  /\ frame > props.scanDuration
  /\ \E i \in 1..Len(out.chars) : out.chars[i].isHit /\ out.chars[i].block
  /\ \E i \in 1..Len(out.chars) : ~out.chars[i].isHit

\* C7: every heart's wrapped vertical coordinate lies in [0, LOOP_HEIGHT), its
\* final y in [-200, height + 200), and its vertical position one composition
\* duration later is the same.
C7_HeartsLoopInBand ==
  comp = "FallingHeartsEmoji" =>
    LET den == RandomRes * video.durationInFrames
    IN  /\ LOOP_HEIGHT(video) = video.height + 400
        /\ \A j \in 1..Len(out.hearts) :
             LET y == out.hearts[j].finalY
             IN  /\ y + 200 * den >= 0
                 /\ y + 200 * den < LOOP_HEIGHT(video) * den
                 /\ y >= (0 - 200) * den
                 /\ y < (video.height + 200) * den
                 /\ memo.value[j].speedMultiplier = 1
                 /\ y = finalY(memo.value[j], frame + video.durationInFrames, video)

C7_Witness ==
  /\ comp = "FallingHeartsEmoji"
  /\ frame > 0
  /\ Len(out.hearts) = HEART_COUNT
  /\ \E j \in 1..Len(out.hearts) :
       out.hearts[j].finalY < finalY(memo.value[j], 0, video)

\* C8: the rotation of NeonCircleFrame, of both rings of CyberpunkDataRing
\* and of ShapeShifter, and DualNeonChase's dash offset, advance by the same
\* amount from each frame to the next, and at frame durationInFrames differ
\* from their frame-0 value by a whole number of turns (one dash period for
\* the offset), so the step from the last frame back to frame 0 is that same
\* amount.
LoopsLinearly(now, next, first, second, atEnd, period) ==
  /\ next - now = second - first
  /\ period # 0
  /\ (atEnd - first) % period = 0
  /\ (frame = video.durationInFrames - 1 => atEnd - now = second - first)

C8_LoopsAdvanceUniformly ==
  LET d == video.durationInFrames
  IN  /\ comp = "NeonCircleFrame" =>
           LoopsLinearly(out.gradientFrom, NeonCircleFrameRotation(frame + 1, video),
                         NeonCircleFrameRotation(0, video),
                         NeonCircleFrameRotation(1, video),
                         NeonCircleFrameRotation(d, video), 360 * d)
      /\ comp = "ShapeShifter" =>
           LoopsLinearly(out.rotate, ShapeShifterRotation(frame + 1, video),
                         ShapeShifterRotation(0, video),
                         ShapeShifterRotation(1, video),
                         ShapeShifterRotation(d, video), 360 * d)
      /\ comp = "CyberpunkDataRing" =>
           /\ LoopsLinearly(out.rings[1].rotate, currentRotation(frame + 1, video, 1, 1),
                            currentRotation(0, video, 1, 1),
                            currentRotation(1, video, 1, 1),
                            currentRotation(d, video, 1, 1), 360 * d)
           /\ LoopsLinearly(out.rings[2].rotate, currentRotation(frame + 1, video, 3, -1),
                            currentRotation(0, video, 3, -1),
                            currentRotation(1, video, 3, -1),
                            currentRotation(d, video, 3, -1), 360 * d)
      /\ comp = "DualNeonChase" =>
           \A b \in 1..Len(out.beams) :
             LET dash   == out.beams[b].strokeDasharray
                 period == dash[1] + dash[2]           \* over 10
                 at(f)  == DualNeonChase(f, props, video).beams[b].strokeDashoffset
             IN  /\ 10 * (at(0) - at(d)) = 2 * d * period
                 /\ LoopsLinearly(out.beams[b].strokeDashoffset * 5, at(frame + 1) * 5,
                                  at(0) * 5, at(1) * 5, at(d) * 5, d * period)

C8_Witness ==
  /\ comp = "CyberpunkDataRing"
  /\ frame = video.durationInFrames - 1
  /\ out.rings[2].rotate < 0 - 2 * 360 * video.durationInFrames
  /\ out.rings[1].rotate > 0

\* C9 (as stated): every bundle contains a visual component, a resolution, a
\* frame rate, a duration, default parameters and its id.
HasDuration(cfg) ==
  HasField(cfg, "durationInFrames") \/ HasField(cfg, "durationInSeconds")

C10_HeadDrawnLast ==
  comp = "SpeedDemonSpinner" =>
    LET top == out.tailStack[Len(out.tailStack)]
    IN  /\ Len(out.tailStack) = numTailSegments
        /\ top.key = 0
        /\ top.opacity = numTailSegments - 1
        /\ top.blur = 0
        /\ top.rotation = totalRotation(frame, video)

\* C11: in NeonSaberCountdown the exit opacity multiplier is within [0, 1]
\* on every frame, it is 1 on every local frame up to fps - 8, and until then
\* the aura layer has opacity 0.5 and the glow and core layers opacity 1.
C11_ExitOpacityWithinUnit ==
  (comp = "NeonSaberCountdown" /\ Len(out.children) = 1) =>
    LET n == out.children[1]
    IN  /\ n.exitOpacity >= 0
        /\ n.exitOpacity <= 4                       \* over 4
        /\ (n.localFrame <= video.fps - 8 =>
              /\ n.exitOpacity = 4
              /\ n.auraOpacity = 4                  \* over 8
              /\ n.glowOpacity = 4
              /\ n.coreOpacity = 4)

\* C12: AuroraMeshGradient always renders 6 blobs, and for every non-empty
\* colour palette, also one of fewer than 5 entries, the colour of each blob
\* is an element of the palette.
C12_BlobColoursFromPalette ==
  comp = "AuroraMeshGradient" =>
    /\ Len(props.colors) > 0
    /\ Len(out.blobs) = 6
    /\ \A i \in 1..Len(out.blobs) :
         \E k \in 1..Len(props.colors) : out.blobs[i].color = props.colors[k]

\* C13: across the six blobs of AuroraMeshGradient, whose seeds are i * 45
\* for i = 0..5, both orbit directions occur, and the radius terms seed mod 3
\* and (seed + 1) mod 3 each take more than one value.
C13_SeedVariesDirectionAndRadius ==
  comp = "AuroraMeshGradient" =>
    LET B == 1..Len(out.blobs)
    IN  /\ \A i \in B : out.blobs[i].seed = (i - 1) * 45
        /\ {out.blobs[i].direction : i \in B} = {1, -1}
        /\ Cardinality({out.blobs[i].radiusTermX : i \in B}) > 1
        /\ Cardinality({out.blobs[i].radiusTermY : i \in B}) > 1
        /\ Cardinality({out.blobs[i].orbitRadiusX : i \in B}) > 1
        /\ Cardinality({out.blobs[i].orbitRadiusY : i \in B}) > 1

\* C14: in NeonEKG at frame f the point drawn at pixel x (a multiple of 10 in
\* 0..width) shows the signal of time f - (width - x) / 20, the point at
\* x = width shows time f, exactly the points whose time is not negative are
\* drawn, so the polyline has min(width / 10 + 1, 2 * f + 1) points with
\* strictly increasing x; and what a point shows is what the point 20 pixels
\* to its left shows on the next frame.
C14_RightEdgeIsNow ==
  comp = "NeonEKG" =>
    LET pts  == out.points
        W    == video.width
        full == W \div 10 + 1
        n    == Len(pts)
        next == polylinePointsFactory(frame + 1, props, video)
        Shown(pt) == <<pt.visualTime, pt.wave, pt.y, pt.sinAmplitude, pt.sinArg>>
    IN  /\ n = (IF full < 2 * frame + 1 THEN full ELSE 2 * frame + 1)
        /\ \A i \in 1..n :
             /\ pts[i].x % 10 = 0
             /\ pts[i].x \in 0..W
             /\ pts[i].visualTime = speed * frame - (W - pts[i].x)
             /\ pts[i].visualTime >= 0
        /\ pts[n].x = W
        /\ pts[n].visualTime = speed * frame
        /\ \A i \in 1..(n - 1) : pts[i].x < pts[i + 1].x
        /\ {pts[i].x : i \in 1..n}
             = {x \in {10 * k : k \in 0..(W \div 10)} : speed * frame - (W - x) >= 0}
        /\ \A i \in 1..n :
             pts[i].x >= speed =>
               LET j == Len(next) - (W - (pts[i].x - speed)) \div 10
               IN  /\ next[j].x = pts[i].x - speed
                   /\ Shown(next[j]) = Shown(pts[i])

C14_Witness ==
  /\ comp = "NeonEKG"
  /\ frame = 100
  /\ Len(out.points) = 201
  /\ out.points[1].x = 1840
  /\ out.points[1].visualTime = 0
  /\ \E i \in 1..Len(out.points) : out.points[i].wave = "R"

====
